---- MODULE Spec2Model ----
(***************************************************************************)
(* Model of the Spotify search backend (src/main.py): module start-up that *)
(* builds the catalog client handle sp, the health route "/" and the       *)
(* route "/search" with the upstream call sp.search and the reshaping of   *)
(* its result.                                                             *)
(***************************************************************************)
EXTENDS Integers, Sequences, FiniteSets, TLC

VARIABLES pc, environ, CLIENT_ID, CLIENT_SECRET, construct, sp,
          request, response, upstream_calls, handled

vars == <<pc, environ, CLIENT_ID, CLIENT_SECRET, construct, sp,
          request, response, upstream_calls, handled>>

(***************************************************************************)
(* Bounds of the model.                                                    *)
(***************************************************************************)
\* longest upstream item list enumerated track by track
MaxItems == 2
\* how many items beyond the requested limit an upstream answer may carry
MaxOver == 1
\* number of requests handled in one behaviour
MaxRequests == 3

(***************************************************************************)
(* Python values.                                                          *)
(***************************************************************************)
\* Python None / JSON null
None == "<None>"
\* the empty dict {}
EmptyDict == [k \in {} |-> None]
\* dict.get(key, default)
Get(d, key, default) == IF key \in DOMAIN d THEN d[key] ELSE default

\* limit=10 passed to sp.search
Limit == 10

(***************************************************************************)
(* Start-up.                                                               *)
(***************************************************************************)
\* the literals of the published script: empty placeholders
PlaceholderCredentials == [id |-> "", secret |-> ""]
\* the variant of the script that carries literal credential values
HardcodedCredentials == [id |-> "client-id", secret |-> "client-secret"]

\* what load_dotenv() leaves in the process environment
Environments ==
    { EmptyDict,
      [SPOTIPY_CLIENT_ID |-> "env-id"],
      [SPOTIPY_CLIENT_SECRET |-> "env-secret"],
      [SPOTIPY_CLIENT_ID |-> "env-id", SPOTIPY_CLIENT_SECRET |-> "env-secret"] }

\* the handle spotipy.Spotify(auth_manager=...) returns
Client(id, secret) == "Spotify(" \o id \o ":" \o secret \o ")"

\* Python truthiness of the handle: `not sp`
NotSp(h) == h = None

NoRequest == [route |-> "-"]
NoResponse == [status |-> 0, kind |-> "none"]

Init ==
    /\ pc = "boot"
    /\ environ \in Environments
    /\ \E c \in {PlaceholderCredentials, HardcodedCredentials} :
          /\ CLIENT_ID = c.id
          /\ CLIENT_SECRET = c.secret
    /\ construct \in {"ok", "raises"}
    /\ sp = None
    /\ request = NoRequest
    /\ response = NoResponse
    /\ upstream_calls = 0
    /\ handled = 0

\* lines 27-41: sp = None, then the credential check and the guarded
\* construction of the client
InitSpotipy(id, secret, outcome) ==
    IF id = "" \/ secret = ""
    THEN None
    ELSE IF outcome = "ok" THEN Client(id, secret) ELSE None

Startup ==
    /\ pc = "boot"
    /\ sp' = InitSpotipy(CLIENT_ID, CLIENT_SECRET, construct)
    /\ pc' = "serving"
    /\ UNCHANGED <<environ, CLIENT_ID, CLIENT_SECRET, construct,
                   request, response, upstream_calls, handled>>

(***************************************************************************)
(* GET /                                                                   *)
(***************************************************************************)
HomeNotInitialized ==
    "Spotify search backend is running, but Spotipy is NOT initialized. Check credentials and logs."
HomeInitialized ==
    "Spotify search backend is running and Spotipy is initialized!"

\* home with one text for both states of the handle
home_SameText(h) ==
    [status |-> 200, kind |-> "text", body |-> HomeInitialized]

\* a view returning a string: Flask answers 200 with that text
home(h) ==
    IF NotSp(h)
    THEN [status |-> 200, kind |-> "text", body |-> HomeNotInitialized]
    ELSE [status |-> 200, kind |-> "text", body |-> HomeInitialized]

Home ==
    /\ pc = "serving"
    /\ handled < MaxRequests
    /\ request' = [route |-> "/"]
    /\ response' = home(sp)
    /\ handled' = handled + 1
    /\ UNCHANGED <<pc, environ, CLIENT_ID, CLIENT_SECRET, construct, sp,
                   upstream_calls>>

(***************************************************************************)
(* The upstream catalog API as seen through sp.search.                     *)
(***************************************************************************)
\* track objects of an upstream answer; keys may be missing
SampleTracks ==
    << [name |-> "Bohemian Rhapsody",
        artists |-> << [name |-> "Queen"] >>,
        album |-> [name |-> "A Night at the Opera",
                   images |-> << [url |-> "https://img/large.jpg"],
                                 [url |-> "https://img/small.jpg"] >>],
        uri |-> "spotify:track:abc",
        external_urls |-> [spotify |-> "https://open.spotify.com/track/abc"]],
       [name |-> "Under Pressure",
        artists |-> << [name |-> "Queen"], [name |-> "David Bowie"] >>,
        album |-> [name |-> "Hot Space"],
        uri |-> "spotify:track:def"],
       [artists |-> << [name |-> "David Bowie"], EmptyDict, [name |-> "Queen"] >>,
        album |-> [images |-> << EmptyDict >>],
        external_urls |-> EmptyDict],
       [name |-> "Untitled",
        artists |-> << >>,
        album |-> [name |-> "Bare", images |-> << >>],
        uri |-> "spotify:track:ghi"],
       EmptyDict >>

Tracks == { SampleTracks[i] : i \in 1..Len(SampleTracks) }

\* all item lists of at most n tracks
RECURSIVE ItemLists(_)
ItemLists(n) ==
    IF n = 0 THEN { << >> }
    ELSE LET shorter == ItemLists(n - 1)
         IN  shorter \cup { Append(l, t) : l \in { s \in shorter : Len(s) = n - 1 },
                                           t \in Tracks }

\* a full page and pages longer than the limit asked for
LongItems(n, shift) ==
    [i \in 1..n |-> SampleTracks[((i + shift) % 3) + 1]]

Items ==
    ItemLists(MaxItems)
      \cup { LongItems(n, shift) : n \in Limit..(Limit + MaxOver), shift \in 0..1 }

\* the dict sp.search returns
Results ==
    { EmptyDict, [tracks |-> EmptyDict] }
      \cup { [tracks |-> [items |-> l]] : l \in Items }

SpotifyMessages ==
    { "http status: 429, code: -1 - rate limited",
      "http status: 401, code: -1 - The access token expired" }
OtherMessages == { "Connection refused" }

\* what one call of sp.search(q=song_name, type='track', limit=10) does
Outcomes ==
    { [kind |-> "return", results |-> r] : r \in Results }
      \cup { [kind |-> "SpotifyException", msg |-> m] : m \in SpotifyMessages }
      \cup { [kind |-> "Exception", msg |-> m] : m \in OtherMessages }

NoOutcome == [kind |-> "not called"]

\* request.args of a request
Args ==
    { EmptyDict, [song_name |-> ""],
      [song_name |-> "Bohemian Rhapsody"], [song_name |-> "zzzznonexistentzzzz"] }

(***************************************************************************)
(* GET /search                                                             *)
(***************************************************************************)
\* a presence test that lets the empty string through
NotStr_NoneOnly(s) == s = None

\* Python truthiness of a str-or-None: `not song_name`
NotStr(s) == s = None \/ s = ""

\* [artist.get('name') for artist in track.get('artists', [])]
ArtistNames(track) ==
    LET artists == Get(track, "artists", << >>)
    IN  [i \in 1..Len(artists) |-> Get(artists[i], "name", None)]

\* track.get('album', {}).get('images', [{}])
Images(track) == Get(Get(track, "album", EmptyDict), "images", << EmptyDict >>)

\* images[0] on an empty list raises IndexError
CoverRaises(track) == Len(Images(track)) = 0

\* track.get('album', {}).get('images', [{}])[0].get('url')
CoverImage(track) == Get(Images(track)[1], "url", None)

\* the dict appended to formatted_tracks for one item
FormatTrack(track) ==
    [name |-> Get(track, "name", None),
     artists |-> ArtistNames(track),
     album |-> Get(Get(track, "album", EmptyDict), "name", None),
     uri |-> Get(track, "uri", None),
     external_urls |-> Get(Get(track, "external_urls", EmptyDict), "spotify", None),
     cover_image |-> CoverImage(track)]

\* a loop that appends every formatted track twice
FormatTracks_Twice(items) ==
    [i \in 1..(2 * Len(items)) |-> FormatTrack(items[(i + 1) \div 2])]

\* the loop over items building formatted_tracks
FormatTracks(items) == [i \in 1..Len(items) |-> FormatTrack(items[i])]

\* whether the loop raises before it completes
FormatRaises(items) == \E i \in 1..Len(items) : CoverRaises(items[i])

Json(st, b) == [status |-> st, kind |-> "json", body |-> b]

\* results.get('tracks', {}).get('items', [])
ItemsOf(results) == Get(Get(results, "tracks", EmptyDict), "items", << >>)

\* a reshaping that answers an empty result with an empty tracks array
\* next to the message
Reshape_BothKeys(song_name, results) ==
    LET items == ItemsOf(results)
    IN  IF Len(items) > 0
        THEN IF FormatRaises(items)
             THEN Json(500, [error |-> "An unexpected error occurred: "
                                         \o "list index out of range"])
             ELSE Json(200, [tracks |-> FormatTracks(items)])
        ELSE Json(200, [tracks |-> << >>,
                        message |-> "No tracks found matching '" \o song_name \o "'."])

\* a reshaping whose message does not carry the requested song name
Reshape_NoName(song_name, results) ==
    LET items == ItemsOf(results)
    IN  IF Len(items) > 0
        THEN IF FormatRaises(items)
             THEN Json(500, [error |-> "An unexpected error occurred: "
                                         \o "list index out of range"])
             ELSE Json(200, [tracks |-> FormatTracks(items)])
        ELSE Json(200, [message |-> "No tracks found."])

\* the body of the try block once sp.search has returned results
Reshape(song_name, results) ==
    LET items == ItemsOf(results)
    IN  IF Len(items) > 0
        THEN IF FormatRaises(items)
             THEN Json(500, [error |-> "An unexpected error occurred: "
                                         \o "list index out of range"])
             ELSE Json(200, [tracks |-> FormatTracks(items)])
        ELSE Json(200, [message |-> "No tracks found matching '" \o song_name \o "'."])

\* a try/except without the SpotifyException clause
TrySearch_Generic(song_name, outcome) ==
    CASE outcome.kind = "return" -> Reshape(song_name, outcome.results)
      [] OTHER ->
            Json(500, [error |-> "An unexpected error occurred: " \o outcome.msg])

\* the try/except around the upstream call
TrySearch(song_name, outcome) ==
    CASE outcome.kind = "return" -> Reshape(song_name, outcome.results)
      [] outcome.kind = "SpotifyException" ->
            Json(500, [error |-> "Spotify API error: " \o outcome.msg])
      [] OTHER ->
            Json(500, [error |-> "An unexpected error occurred: " \o outcome.msg])

\* the outcome of a handler run: the response and the sp.search calls made
Handled(resp, calls) == [response |-> resp, calls |-> calls]

\* a view that validates the parameter before it looks at the handle
search_song_ParamFirst(h, args, outcome) ==
    LET song_name == Get(args, "song_name", None)
    IN  IF NotStr(song_name)
        THEN Handled(Json(400, [error |-> "Missing 'song_name' query parameter"]), 0)
        ELSE IF NotSp(h)
             THEN Handled(Json(500, [error |-> "Spotipy not initialized. Check credentials."]), 0)
             ELSE Handled(TrySearch(song_name, outcome), 1)

\* the whole view function
search_song(h, args, outcome) ==
    IF NotSp(h)
    THEN Handled(Json(500, [error |-> "Spotipy not initialized. Check credentials."]), 0)
    ELSE LET song_name == Get(args, "song_name", None)
         IN  IF NotStr(song_name)
             THEN Handled(Json(400, [error |-> "Missing 'song_name' query parameter"]), 0)
             ELSE Handled(TrySearch(song_name, outcome), 1)

SearchSong ==
    /\ pc = "serving"
    /\ handled < MaxRequests
    /\ \E args \in Args, outcome \in Outcomes :
          LET run == search_song(sp, args, outcome)
          IN  /\ request' = [route |-> "/search", args |-> args,
                             upstream |-> IF run.calls > 0 THEN outcome ELSE NoOutcome]
              /\ response' = run.response
              /\ upstream_calls' = upstream_calls + run.calls
    /\ handled' = handled + 1
    /\ UNCHANGED <<pc, environ, CLIENT_ID, CLIENT_SECRET, construct, sp>>

Next == Startup \/ Home \/ SearchSong

Spec == Init /\ [][Next]_vars

(***************************************************************************)
(* Properties.                                                             *)
(***************************************************************************)
IsSearch == request.route = "/search"
IsHome == request.route = "/"
SongName == Get(request.args, "song_name", None)
SongNameGiven == SongName # None /\ SongName # ""
UpstreamReturned == request.upstream.kind = "return"
UpstreamItems ==
    Get(Get(request.upstream.results, "tracks", EmptyDict), "items", << >>)
BodyKeys == DOMAIN response.body

\* C1: once start-up has left the handle sp unset, every /search request,
\* whatever its song_name (missing and empty included), is answered with
\* status 500 and the body {"error": "Spotipy not initialized. Check
\* credentials."}, and sp.search is never called.
C1_NotInitialised ==
    (pc = "serving" /\ sp = None) =>
        /\ upstream_calls = 0
        /\ IsSearch =>
              /\ response.status = 500
              /\ response.body = [error |-> "Spotipy not initialized. Check credentials."]
              /\ request.upstream = NoOutcome

C1_Witness ==
    /\ pc = "serving" /\ sp = None
    /\ handled >= 2
    /\ IsSearch
    /\ request.args = EmptyDict
    /\ response.status = 500

\* C2 as stated: every /search request without song_name, or with an empty
\* one, is answered with status 400 and the missing-parameter body.
C2_Original ==
    (IsSearch /\ ~SongNameGiven) =>
        /\ response.status = 400
        /\ response.body = [error |-> "Missing 'song_name' query parameter"]

\* C2 amended: when the client is initialised, every /search request without
\* song_name, or with an empty one, is answered with status 400 and the
\* body {"error": "Missing 'song_name' query parameter"}.
C2_MissingSongName ==
    (IsSearch /\ sp # None /\ ~SongNameGiven) =>
        /\ response.status = 400
        /\ response.body = [error |-> "Missing 'song_name' query parameter"]

C2_Witness ==
    /\ IsSearch /\ sp # None
    /\ request.args = [song_name |-> ""]
    /\ response.status = 400

\* C3 as stated: for a non-empty song_name the body of the /search response
\* has exactly one of the keys tracks and message.
C3_Original ==
    (IsSearch /\ SongNameGiven) =>
        \/ ("tracks" \in BodyKeys /\ "message" \notin BodyKeys)
        \/ ("message" \in BodyKeys /\ "tracks" \notin BodyKeys)

\* C3 amended: for a non-empty song_name, a /search response of status 200
\* has a body with exactly one key, which is tracks (a non-empty array) or
\* message (a string); every other response has status 500 and a body with
\* the key error only.
C3_OneShape ==
    (IsSearch /\ SongNameGiven) =>
        IF response.status = 200
        THEN \/ /\ BodyKeys = {"tracks"}
                /\ DOMAIN response.body.tracks = 1..Len(response.body.tracks)
                /\ Len(response.body.tracks) > 0
             \/ /\ BodyKeys = {"message"}
                /\ response.body.message \in STRING
        ELSE /\ response.status = 500
             /\ BodyKeys = {"error"}

C3_Witness ==
    /\ IsSearch /\ SongNameGiven
    /\ response.status = 200
    /\ BodyKeys = {"message"}
    /\ handled >= 2

\* the url of the first image of a track, None without one
FirstImageUrl(track) ==
    IF "album" \in DOMAIN track
         /\ "images" \in DOMAIN track.album
         /\ Len(track.album.images) > 0
         /\ "url" \in DOMAIN track.album.images[1]
    THEN track.album.images[1].url
    ELSE None

\* C4: when the upstream search returns items, the request succeeds with
\* status 200 and a tracks body in which cover_image of every entry is the
\* url of the first image of its track, and null for a track whose images
\* list is empty.
C4_CoverImage ==
    (IsSearch /\ UpstreamReturned /\ Len(UpstreamItems) > 0) =>
        /\ response.status = 200
        /\ BodyKeys = {"tracks"}
        /\ Len(response.body.tracks) = Len(UpstreamItems)
        /\ \A i \in 1..Len(UpstreamItems) :
              response.body.tracks[i].cover_image = FirstImageUrl(UpstreamItems[i])

\* C5: when the upstream search returns the items t1..tn, n > 0, the tracks
\* array has n entries and entry i carries name, artists (in upstream
\* order), album, uri and external url of ti.
C5_OrderPreserving ==
    (IsSearch /\ UpstreamReturned /\ Len(UpstreamItems) > 0) =>
        /\ "tracks" \in BodyKeys
        /\ Len(response.body.tracks) = Len(UpstreamItems)
        /\ \A i \in 1..Len(UpstreamItems) :
              LET t == UpstreamItems[i]
                  out == response.body.tracks[i]
                  artists == Get(t, "artists", << >>)
              IN  /\ out.name = Get(t, "name", None)
                  /\ Len(out.artists) = Len(artists)
                  /\ \A k \in 1..Len(artists) :
                        out.artists[k] = Get(artists[k], "name", None)
                  /\ out.album = Get(Get(t, "album", EmptyDict), "name", None)
                  /\ out.uri = Get(t, "uri", None)
                  /\ out.external_urls =
                        Get(Get(t, "external_urls", EmptyDict), "spotify", None)

\* C6 as stated: the tracks array of a /search response never has more than
\* 10 entries, whatever item list the upstream returns.
C6_Original ==
    (IsSearch /\ "tracks" \in BodyKeys) => Len(response.body.tracks) <= Limit

\* C6 amended: the tracks array of a /search response has as many entries as
\* the item list the upstream returned, so it has at most 10 entries
\* whenever the upstream kept to the limit of 10 it was asked for.
C6_AsManyAsUpstream ==
    (IsSearch /\ "tracks" \in BodyKeys) =>
        /\ UpstreamReturned
        /\ Len(response.body.tracks) = Len(UpstreamItems)
        /\ Len(UpstreamItems) <= Limit => Len(response.body.tracks) <= Limit

C6_Witness ==
    /\ IsSearch /\ "tracks" \in BodyKeys
    /\ Len(UpstreamItems) = Limit
    /\ Len(response.body.tracks) = Limit

\* C7: with the client initialised, a non-empty song_name and an upstream
\* search that returns no items (an empty list, or no tracks or items
\* field), the response has status 200 and the body is exactly
\* {"message": "No tracks found matching '<song_name>'."} with the
\* requested song_name.
C7_NoTracksFound ==
    (IsSearch /\ sp # None /\ SongNameGiven /\ UpstreamReturned
       /\ Len(UpstreamItems) = 0) =>
        /\ response.status = 200
        /\ response.body =
              [message |-> "No tracks found matching '" \o SongName \o "'."]

C7_Witness ==
    /\ IsSearch /\ sp # None
    /\ SongName = "zzzznonexistentzzzz"
    /\ UpstreamReturned
    /\ request.upstream.results = [tracks |-> EmptyDict]
    /\ response.body =
          [message |-> "No tracks found matching 'zzzznonexistentzzzz'."]

\* C8: when sp.search raises SpotifyException the same request is answered
\* with status 500 and {"error": "Spotify API error: <message>"}; a request
\* calls sp.search at most once, and no request changes the client handle.
C8_UpstreamError ==
    /\ [] ((IsSearch /\ request.upstream.kind = "SpotifyException") =>
              /\ response.status = 500
              /\ response.body =
                    [error |-> "Spotify API error: " \o request.upstream.msg])
    /\ [][ /\ upstream_calls' <= upstream_calls + 1
           /\ handled' = handled => upstream_calls' = upstream_calls
           /\ pc = "serving" => sp' = sp ]_vars

C8_Witness ==
    /\ IsSearch
    /\ request.upstream.kind = "SpotifyException"
    /\ response.status = 500
    /\ upstream_calls >= 2
    /\ sp # None

\* C9: the client is initialised from the two credential values of the
\* process environment: once the process serves, the handle is set whenever
\* both values are present in the environment and construction succeeds.
C9_EnvironmentCredentials ==
    (pc = "serving"
       /\ {"SPOTIPY_CLIENT_ID", "SPOTIPY_CLIENT_SECRET"} \subseteq DOMAIN environ
       /\ construct = "ok") => sp # None

\* C10: GET / is answered with status 200 in either state of the client and
\* after any earlier requests, with one text when the client is initialised
\* and another when it is not; handling it leaves the handle unchanged and
\* makes no upstream call.
C10_Home ==
    /\ [] (IsHome =>
              /\ response.status = 200
              /\ response.body \in {HomeInitialized, HomeNotInitialized}
              /\ HomeInitialized # HomeNotInitialized
              /\ (response.body = HomeInitialized) <=> (sp # None))
    /\ [][ (handled' # handled /\ request'.route = "/") =>
              (sp' = sp /\ upstream_calls' = upstream_calls) ]_vars

C10_Witness ==
    /\ IsHome
    /\ handled >= 2
    /\ upstream_calls >= 1
    /\ response.status = 200
    /\ response.body = HomeInitialized
====
